---------------------------- MODULE Spec2Model ----------------------------
(***************************************************************************)
(* Model of the file-based key-value store of src-tauri/src/lib.rs:        *)
(* secure_storage_get / secure_storage_set / secure_storage_remove over    *)
(* one file "<key>.dat" per key in the ".keys" directory, the content of   *)
(* each file being the standard base64 text of the value's UTF-8 bytes.    *)
(*                                                                         *)
(* Strings and file contents are sequences of bytes (0..255).              *)
(***************************************************************************)
EXTENDS Naturals, Sequences, FiniteSets, TLC

(* ------------------------------ bounds -------------------------------- *)

\* Longest value, in bytes, a caller passes to secure_storage_set.
MaxLen == 2

\* Bytes values are built from: 'a', and the two bytes of U+00E9.
ValueBytes == {97, 195, 169}

Keys == {"a", "b"}

Procs == {"p1", "p2"}

(* ------------------------- UTF-8 (String::from_utf8) ------------------- *)

IsCont(b) == b >= 128 /\ b <= 191

\* Number of bytes of the well-formed UTF-8 sequence s starts with, 0 if none.
Utf8Width(s) ==
    LET n == Len(s)
        b == s[1]
    IN  IF n = 0 THEN 0
        ELSE IF b < 128 THEN 1
        ELSE IF b >= 194 /\ b <= 223
             THEN IF n >= 2 /\ IsCont(s[2]) THEN 2 ELSE 0
        ELSE IF b >= 224 /\ b <= 239
             THEN IF /\ n >= 3
                     /\ IsCont(s[2])
                     /\ IsCont(s[3])
                     /\ (b = 224 => s[2] >= 160)
                     /\ (b = 237 => s[2] <= 159)
                  THEN 3 ELSE 0
        ELSE IF b >= 240 /\ b <= 244
             THEN IF /\ n >= 4
                     /\ IsCont(s[2])
                     /\ IsCont(s[3])
                     /\ IsCont(s[4])
                     /\ (b = 240 => s[2] >= 144)
                     /\ (b = 244 => s[2] <= 143)
                  THEN 4 ELSE 0
        ELSE 0

RECURSIVE IsUtf8(_)
IsUtf8(s) ==
    IF Len(s) = 0 THEN TRUE
    ELSE LET w == Utf8Width(s)
         IN  IF w = 0 THEN FALSE
             ELSE IsUtf8(SubSeq(s, w + 1, Len(s)))

(* ---------------- base64, general_purpose::STANDARD -------------------- *)

PadChar == 61

\* The ASCII code of the symbol of the 6-bit group i.
B64Sym(i) ==
    IF i < 26 THEN 65 + i
    ELSE IF i < 52 THEN 97 + (i - 26)
    ELSE IF i < 62 THEN 48 + (i - 52)
    ELSE IF i = 62 THEN 43
    ELSE 47

IsB64Sym(c) ==
    \/ (c >= 65 /\ c <= 90)
    \/ (c >= 97 /\ c <= 122)
    \/ (c >= 48 /\ c <= 57)
    \/ c = 43
    \/ c = 47

\* The 6-bit group of an alphabet symbol.
B64Val(c) ==
    IF c >= 65 /\ c <= 90 THEN c - 65
    ELSE IF c >= 97 /\ c <= 122 THEN c - 97 + 26
    ELSE IF c >= 48 /\ c <= 57 THEN c - 48 + 52
    ELSE IF c = 43 THEN 62
    ELSE 63

\* One group of 1..3 bytes as 4 characters, '=' padded.
EncodeChunk(c) ==
    LET b1 == c[1]
        b2 == IF Len(c) >= 2 THEN c[2] ELSE 0
        b3 == IF Len(c) >= 3 THEN c[3] ELSE 0
        s1 == B64Sym(b1 \div 4)
        s2 == B64Sym((b1 % 4) * 16 + (b2 \div 16))
        s3 == B64Sym((b2 % 16) * 4 + (b3 \div 64))
        s4 == B64Sym(b3 % 64)
    IN  IF Len(c) = 1 THEN <<s1, s2, PadChar, PadChar>>
        ELSE IF Len(c) = 2 THEN <<s1, s2, s3, PadChar>>
        ELSE <<s1, s2, s3, s4>>

\* Faulty variant: the encoding without its '=' padding (the STANDARD_NO_PAD engine).
RECURSIVE EncodeNoPad(_)
EncodeNoPad(bytes) ==
    IF Len(bytes) = 0 THEN <<>>
    ELSE IF Len(bytes) <= 3
         THEN SubSeq(EncodeChunk(bytes), 1, Len(bytes) + 1)
    ELSE EncodeChunk(SubSeq(bytes, 1, 3)) \o EncodeNoPad(SubSeq(bytes, 4, Len(bytes)))

RECURSIVE Encode(_)
Encode(bytes) ==
    IF Len(bytes) = 0 THEN <<>>
    ELSE IF Len(bytes) <= 3 THEN EncodeChunk(bytes)
    ELSE EncodeChunk(SubSeq(bytes, 1, 3)) \o Encode(SubSeq(bytes, 4, Len(bytes)))

\* Whether the 4 characters q decode; last: q is the final group, the only
\* one that may be padded, and whose unused low bits must be zero.
ChunkOk(q, last) ==
    /\ IsB64Sym(q[1])
    /\ IsB64Sym(q[2])
    /\ \/ IsB64Sym(q[3]) /\ IsB64Sym(q[4])
       \/ last /\ IsB64Sym(q[3]) /\ q[4] = PadChar /\ B64Val(q[3]) % 4 = 0
       \/ last /\ q[3] = PadChar /\ q[4] = PadChar /\ B64Val(q[2]) % 16 = 0

DecodeChunk(q) ==
    LET v1 == B64Val(q[1])
        v2 == B64Val(q[2])
        v3 == IF q[3] = PadChar THEN 0 ELSE B64Val(q[3])
        v4 == IF q[4] = PadChar THEN 0 ELSE B64Val(q[4])
        b1 == v1 * 4 + (v2 \div 16)
        b2 == (v2 % 16) * 16 + (v3 \div 4)
        b3 == (v3 % 4) * 64 + v4
    IN  IF q[3] = PadChar THEN <<b1>>
        ELSE IF q[4] = PadChar THEN <<b1, b2>>
        ELSE <<b1, b2, b3>>

RECURSIVE DecodeOk(_)
DecodeOk(text) ==
    IF Len(text) = 0 THEN TRUE
    ELSE IF Len(text) < 4 THEN FALSE
    ELSE /\ ChunkOk(SubSeq(text, 1, 4), Len(text) = 4)
         /\ DecodeOk(SubSeq(text, 5, Len(text)))

RECURSIVE DecodeBytes(_)
DecodeBytes(text) ==
    IF Len(text) < 4 THEN <<>>
    ELSE DecodeChunk(SubSeq(text, 1, 4)) \o DecodeBytes(SubSeq(text, 5, Len(text)))

\* general_purpose::STANDARD.decode: the bytes, or an error.
Decode(text) ==
    IF DecodeOk(text) THEN [ok |-> TRUE, bytes |-> DecodeBytes(text)]
    ELSE [ok |-> FALSE, bytes |-> <<>>]

(* ------------------------------ inputs -------------------------------- *)

\* The values a caller passes: the well-formed UTF-8 strings (a Rust String
\* is always one) of at most MaxLen bytes over ValueBytes.
Values == {s \in UNION {[1..n -> ValueBytes] : n \in 0..MaxLen} : IsUtf8(s)}

\* Contents a key file can hold that no secure_storage_set wrote:
\* "!!!!" (not base64), "YQ" (padding missing), "YR==" (non-zero trailing
\* bits), "YQ==\n" (trailing newline), "/w==" (base64 of the byte 0xFF, which
\* is not UTF-8) and the single byte 0xFF (not text at all).
ForeignContents ==
    { <<33, 33, 33, 33>>, <<89, 81>>, <<89, 82, 61, 61>>,
      <<89, 81, 61, 61, 10>>, <<47, 119, 61, 61>>, <<255>> }

(* ------------------------------ results ------------------------------- *)

Ok(v) == [kind |-> "Ok", value |-> v]
Err(e) == [kind |-> e, value |-> <<>>]
NoRet == [kind |-> "None", value |-> <<>>]

(* ---------------------------- file system ----------------------------- *)

\* Faulty variant: one file name whatever the key.
KeyFileFixed(key) == "key.dat"

\* storage_path.join(format!("{}.dat", key))
KeyFile(key) == key \o ".dat"

\* key_file.exists()
Exists(fs, name) == name \in DOMAIN fs

\* Faulty variant: a failure to resolve or create the directory is ignored.
GetStoragePathIgnore(dir, fault) == [ok |-> TRUE, dir |-> dir \/ fault # "dir"]

\* get_storage_path: the directory is resolved and created; fault "dir" is
\* app_data_dir() or create_dir_all() failing, which creates nothing.
GetStoragePath(dir, fault) ==
    IF fault = "dir" THEN [ok |-> FALSE, dir |-> dir]
    ELSE [ok |-> TRUE, dir |-> TRUE]

\* Faulty variant: content that does not decode is read as the empty string.
ReadAndDecodeLossy(content) ==
    IF ~IsUtf8(content) THEN Err("ReadError")
    ELSE LET d == Decode(content)
         IN  IF ~d.ok \/ ~IsUtf8(d.bytes) THEN Ok(<<>>) ELSE Ok(d.bytes)

\* fs::read_to_string then STANDARD.decode then String::from_utf8, on the
\* bytes the file holds. read_to_string fails on bytes that are not UTF-8.
ReadAndDecode(content) ==
    IF ~IsUtf8(content) THEN Err("ReadError")
    ELSE LET d == Decode(content)
         IN  IF ~d.ok THEN Err("DecodeError")
             ELSE IF ~IsUtf8(d.bytes) THEN Err("EncodingError")
             ELSE Ok(d.bytes)

\* Faulty variant: the file is opened for writing without being truncated.
OpenNoTruncate(fs, name) ==
    [n \in DOMAIN fs \cup {name} |-> IF n \in DOMAIN fs THEN fs[n] ELSE <<>>]

\* File::create inside fs::write: the file is created, or truncated to empty.
OpenTruncate(fs, name) ==
    [n \in DOMAIN fs \cup {name} |-> IF n = name THEN <<>> ELSE fs[n]]

\* write_all inside fs::write: the first n bytes of data are written at
\* offset 0 of the opened file (n = Len(data) when the write succeeds).
WriteAll(fs, name, data, n) ==
    LET old == fs[name]
        new == IF n >= Len(old) THEN SubSeq(data, 1, n)
               ELSE SubSeq(data, 1, n) \o SubSeq(old, n + 1, Len(old))
    IN  [fs EXCEPT ![name] = new]

\* Faulty variant: the file is emptied, not unlinked.
RemoveFileEmpty(fs, name) == [fs EXCEPT ![name] = <<>>]

\* fs::remove_file
RemoveFile(fs, name) == [n \in DOMAIN fs \ {name} |-> fs[n]]

(* ------------------- the commands, each as one call ------------------- *)

\* Faulty variant: a get deletes a file whose content it cannot return.
SecureStorageGetPurge(dir, fs, key, fault) ==
    LET sp == GetStoragePath(dir, fault)
        name == KeyFile(key)
    IN  IF ~sp.ok THEN [dir |-> sp.dir, files |-> fs, res |-> Err("DirectoryError")]
        ELSE IF ~Exists(fs, name)
             THEN [dir |-> sp.dir, files |-> fs, res |-> Err("NotFound")]
        ELSE IF fault = "read"
             THEN [dir |-> sp.dir, files |-> fs, res |-> Err("ReadError")]
        ELSE IF ReadAndDecode(fs[name]).kind # "Ok"
             THEN [dir |-> sp.dir, files |-> RemoveFile(fs, name),
                   res |-> ReadAndDecode(fs[name])]
        ELSE [dir |-> sp.dir, files |-> fs, res |-> ReadAndDecode(fs[name])]

\* secure_storage_get. fault: "none", "dir", or "read" (read_to_string
\* failing with an I/O error).
SecureStorageGet(dir, fs, key, fault) ==
    LET sp == GetStoragePath(dir, fault)
        name == KeyFile(key)
    IN  IF ~sp.ok THEN [dir |-> sp.dir, files |-> fs, res |-> Err("DirectoryError")]
        ELSE IF ~Exists(fs, name)
             THEN [dir |-> sp.dir, files |-> fs, res |-> Err("NotFound")]
        ELSE IF fault = "read"
             THEN [dir |-> sp.dir, files |-> fs, res |-> Err("ReadError")]
        ELSE [dir |-> sp.dir, files |-> fs, res |-> ReadAndDecode(fs[name])]

\* secure_storage_set. fault: "none", "dir", "open" (File::create failing) or
\* "write" (write_all failing after n < Len(encoded) bytes).
SecureStorageSet(dir, fs, key, value, fault, n) ==
    LET sp == GetStoragePath(dir, fault)
        name == KeyFile(key)
        encoded == Encode(value)
    IN  IF ~sp.ok THEN [dir |-> sp.dir, files |-> fs, res |-> Err("DirectoryError")]
        ELSE IF fault = "open"
             THEN [dir |-> sp.dir, files |-> fs, res |-> Err("WriteError")]
        ELSE IF fault = "write"
             THEN [dir |-> sp.dir,
                   files |-> WriteAll(OpenTruncate(fs, name), name, encoded, n),
                   res |-> Err("WriteError")]
        ELSE [dir |-> sp.dir,
              files |-> WriteAll(OpenTruncate(fs, name), name, encoded, Len(encoded)),
              res |-> Ok(<<>>)]

\* Faulty variant: remove_file is called without the exists() check before it.
SecureStorageRemoveNoCheck(dir, fs, key, fault) ==
    LET sp == GetStoragePath(dir, fault)
        name == KeyFile(key)
    IN  IF ~sp.ok THEN [dir |-> sp.dir, files |-> fs, res |-> Err("DirectoryError")]
        ELSE IF fault = "delete" \/ ~Exists(fs, name)
             THEN [dir |-> sp.dir, files |-> fs, res |-> Err("DeleteError")]
        ELSE [dir |-> sp.dir, files |-> RemoveFile(fs, name), res |-> Ok(<<>>)]

\* secure_storage_remove. fault: "none", "dir" or "delete" (remove_file
\* failing).
SecureStorageRemove(dir, fs, key, fault) ==
    LET sp == GetStoragePath(dir, fault)
        name == KeyFile(key)
    IN  IF ~sp.ok THEN [dir |-> sp.dir, files |-> fs, res |-> Err("DirectoryError")]
        ELSE IF ~Exists(fs, name)
             THEN [dir |-> sp.dir, files |-> fs, res |-> Ok(<<>>)]
        ELSE IF fault = "delete"
             THEN [dir |-> sp.dir, files |-> fs, res |-> Err("DeleteError")]
        ELSE [dir |-> sp.dir, files |-> RemoveFile(fs, name), res |-> Ok(<<>>)]

(* ------------------------------- state -------------------------------- *)

VARIABLES
    dirExists,  \* whether <app data dir>/.keys exists
    files,      \* the files of .keys: file name -> content
    last,       \* the last completed call and what it changed
    hist,       \* per key: the successful sets, or removes, made of it in a row
    pc,         \* per concurrent call: the step it is at ("idle": none running)
    call,       \* per caller: the command it last invoked, its key and value
    ret,        \* per caller: what its last call returned (NoRet while running)
    fd,         \* per caller in fs::write: the file it opened is still linked
    touched,    \* per caller: its call has examined or accessed a key file
    expect,     \* per caller in a get: the values it may return ({}: unknown)
    raced       \* per caller: its set overlapped a set of the same key

seqVars == <<last, hist>>
concVars == <<pc, call, ret, fd, touched, expect, raced>>
vars == <<dirExists, files, last, hist, pc, call, ret, fd, touched, expect,
          raced>>

NoHist == [state |-> "unknown", value |-> <<>>, count |-> 0, existed |-> FALSE,
           shrank |-> FALSE]

\* Any content a key file may hold when the program starts.
InitContents == {Encode(v) : v \in Values} \cup ForeignContents

\* What a call made with no fault returns for key, as the files stand.
View(dir, fs, key) == SecureStorageGet(dir, fs, key, "none").res

\* The file names whose existence or content differs between fs1 and fs2.
Changed(fs1, fs2) ==
    {n \in DOMAIN fs1 \cup DOMAIN fs2 :
        \/ n \notin DOMAIN fs1
        \/ n \notin DOMAIN fs2
        \/ fs1[n] # fs2[n]}

InitFs(keys, contents) ==
    \E S \in SUBSET {KeyFile(k) : k \in keys} :
      /\ files \in [S -> contents]
      /\ dirExists \in (IF S = {} THEN BOOLEAN ELSE {TRUE})

InitSeq ==
    /\ last = [op |-> "none", key |-> "", fault |-> "none", res |-> NoRet,
               preDir |-> dirExists, existed |-> FALSE, changed |-> {},
               preOthers |-> <<>>]
    /\ hist = [k \in Keys |-> NoHist]

InitConc ==
    /\ pc = [p \in Procs |-> "idle"]
    /\ call = [p \in Procs |-> [op |-> "none", key |-> "", value |-> <<>>]]
    /\ ret = [p \in Procs |-> NoRet]
    /\ fd = [p \in Procs |-> FALSE]
    /\ touched = [p \in Procs |-> FALSE]
    /\ expect = [p \in Procs |-> {}]
    /\ raced = [p \in Procs |-> FALSE]

Init == InitFs(Keys, InitContents) /\ InitSeq /\ InitConc

\* The file of key, as a sequence of no or one content.
Entry(fs, key) == IF Exists(fs, KeyFile(key)) THEN <<fs[KeyFile(key)]>> ELSE <<>>

\* The files of a directory that holds the entry e of key and nothing else.
EntryFs(key, e) == [n \in (IF e = <<>> THEN {} ELSE {KeyFile(key)}) |-> e[1]]

\* A call returns. Recorded with its result: the fault the file system
\* raised in it, whether the directory and the key's file existed before it,
\* the files it changed, and the file each other key had before it.
Done(op, key, fault, out) ==
    /\ last' = [op |-> op, key |-> key, fault |-> fault, res |-> out.res,
                preDir |-> dirExists,
                existed |-> Exists(files, KeyFile(key)),
                changed |-> Changed(files, out.files),
                preOthers |-> [k \in Keys \ {key} |-> Entry(files, k)]]
    /\ dirExists' = out.dir
    /\ files' = out.files
    /\ UNCHANGED concVars

Get(key, fault) ==
    /\ fault = "read" => Exists(files, KeyFile(key))
    /\ Done("get", key, fault, SecureStorageGet(dirExists, files, key, fault))
    /\ UNCHANGED hist

Set(key, value, fault, n) ==
    LET out == SecureStorageSet(dirExists, files, key, value, fault, n)
    IN  /\ Done("set", key, fault, out)
        /\ hist' = [hist EXCEPT ![key] =
                      IF out.res.kind # "Ok" THEN NoHist
                      ELSE IF @.state = "set"
                           THEN [state |-> "set", value |-> value, count |-> 2,
                                 existed |-> TRUE,
                                 shrank |-> Len(Encode(value)) < Len(Encode(@.value))]
                      ELSE [state |-> "set", value |-> value, count |-> 1,
                            existed |-> Exists(files, KeyFile(key)),
                            shrank |-> FALSE]]

Remove(key, fault) ==
    LET out == SecureStorageRemove(dirExists, files, key, fault)
    IN  /\ fault = "delete" => Exists(files, KeyFile(key))
        /\ Done("remove", key, fault, out)
        /\ hist' = [hist EXCEPT ![key] =
                      IF out.res.kind # "Ok" THEN NoHist
                      ELSE IF @.state = "removed"
                           THEN [@ EXCEPT !.count = 2]
                      ELSE [state |-> "removed", value |-> <<>>, count |-> 1,
                            existed |-> Exists(files, KeyFile(key)),
                            shrank |-> FALSE]]

Next ==
    \/ \E k \in Keys, f \in {"none", "dir", "read"} : Get(k, f)
    \/ \E k \in Keys, v \in Values : Set(k, v, "none", Len(Encode(v)))
    \/ \E k \in Keys, f \in {"dir", "open"} : \E v \in Values : Set(k, v, f, 0)
    \/ \E k \in Keys, v \in Values : \E n \in 0..(Len(Encode(v)) - 1) : Set(k, v, "write", n)
    \/ \E k \in Keys, f \in {"none", "dir", "delete"} : Remove(k, f)

Spec == Init /\ [][Next]_vars

(* ------------------------ claims, one call at a time ------------------- *)

\* C1: a get of key k made after a successful set(k, v), no set or remove of
\* k in between, returns success with exactly v (the fs raising no fault in
\* the get); and a get of a key with no file returns not-found, which is not
\* the success a stored empty string gives.
C1_RoundTrip ==
    /\ \A k \in Keys :
         (last.op = "get" /\ last.key = k /\ last.fault = "none"
            /\ hist[k].state = "set")
         => last.res = Ok(hist[k].value)
    /\ (last.op = "get" /\ last.fault # "dir" /\ ~last.existed)
         => (last.res = Err("NotFound") /\ last.res # Ok(<<>>))

C1_Witness ==
    /\ last.op = "get"
    /\ hist[last.key].state = "set"
    /\ hist[last.key].value = <<195, 169>>
    /\ last.res = Ok(<<195, 169>>)

\* C2: after successful sets of k, the later with v2 right after the earlier
\* with v1, the file of k holds exactly the encoding of v2, a get of k returns
\* v2, and the directory holds no file but the one file <key>.dat of each key.
C2_LastWriteWins ==
    /\ \A k \in Keys :
         (hist[k].state = "set" /\ hist[k].count = 2)
         => /\ Exists(files, KeyFile(k))
            /\ files[KeyFile(k)] = Encode(hist[k].value)
            /\ (last.op = "get" /\ last.key = k /\ last.fault = "none")
                 => last.res = Ok(hist[k].value)
    /\ DOMAIN files \subseteq {KeyFile(k) : k \in Keys}

C2_Witness ==
    /\ last.op = "get"
    /\ hist[last.key].state = "set"
    /\ hist[last.key].count = 2
    /\ hist[last.key].shrank
    /\ last.res = Ok(<<>>)

\* C3: a get of k made after a successful remove(k), no set of k in between,
\* fails with not-found, whatever the file of k held before the remove.
C3_RemoveThenGet ==
    \A k \in Keys :
      (last.op = "get" /\ last.key = k /\ last.fault # "dir"
         /\ hist[k].state = "removed")
      => last.res = Err("NotFound")

C3_Witness ==
    /\ last.op = "get"
    /\ hist[last.key].state = "removed"
    /\ hist[last.key].existed
    /\ last.res = Err("NotFound")

\* C4: a remove of a key with no file succeeds and changes no file; so of two
\* removes of k in a row the second succeeds and leaves what the first left.
C4_RemoveIdempotent ==
    /\ (last.op = "remove" /\ last.fault # "dir" /\ ~last.existed)
         => (last.res = Ok(<<>>) /\ last.changed = {})
    /\ \A k \in Keys :
         (last.op = "remove" /\ last.key = k /\ hist[k].state = "removed"
            /\ hist[k].count = 2)
         => (~last.existed /\ last.res = Ok(<<>>) /\ last.changed = {}
               /\ ~Exists(files, KeyFile(k)))

C4_Witness ==
    /\ last.op = "remove"
    /\ hist[last.key].state = "removed"
    /\ hist[last.key].count = 2
    /\ hist[last.key].existed
    /\ last.res = Ok(<<>>)

\* The content of the file a get has just read (a get changes no file).
ReadContent == files[KeyFile(last.key)]

C6_Original ==
    last.op = "get" => (dirExists = last.preDir /\ last.changed = {})

\* C6 amended: a get creates, changes and deletes no key file, whether it
\* succeeds or fails; the one effect it has is to create the storage
\* directory, which exists after every get whose directory step succeeded.
C6_GetFrame ==
    last.op = "get"
    => /\ last.changed = {}
       /\ dirExists = (last.preDir \/ last.fault # "dir")

C6_Witness ==
    /\ last.op = "get"
    /\ ~last.preDir
    /\ dirExists
    /\ last.res = Err("NotFound")

\* C10: a set or a remove of key k1, succeeding or failing, leaves the file
\* of every other key k2 as it was, and a get of k2 returns after it what it
\* returned before it.
C10_KeyIsolation ==
    last.op \in {"set", "remove"}
    => \A k2 \in Keys \ {last.key} :
         /\ KeyFile(k2) \notin last.changed
         /\ Entry(files, k2) = last.preOthers[k2]
         /\ View(dirExists, files, k2)
              = View(last.preDir, EntryFs(k2, last.preOthers[k2]), k2)

C10_Witness ==
    /\ last.op = "set"
    /\ last.res.kind = "WriteError"
    /\ last.changed # {}
    /\ \E k2 \in Keys \ {last.key} : View(dirExists, files, k2) = Ok(<<97>>)

(* --------------- the commands as concurrent calls, by step ------------- *)
(* Each call is a thread of the host runtime; a step is one file system    *)
(* operation of it. The one fault the file system raises here is in the    *)
(* directory step; reads, writes and deletes fail only for what another    *)
(* call did to the file.                                                   *)

\* The key the racing calls are on.
ConcKeys == {"a"}

\* What the concurrent callers find at the start: files sets have written.
StoredContents == {Encode(v) : v \in Values}

ConcInit == InitFs(ConcKeys, StoredContents) /\ InitSeq /\ InitConc

OthersIdle(p) == \A q \in Procs \ {p} : pc[q] = "idle"

\* q is in a call of command op on key.
InCall(q, op, key) == pc[q] # "idle" /\ call[q].op = op /\ call[q].key = key

Return(p, r) ==
    /\ pc' = [pc EXCEPT ![p] = "idle"]
    /\ ret' = [ret EXCEPT ![p] = r]

\* The front end invokes a command: tauri dispatches it on its own thread.
Call(p, op, key, value) ==
    /\ pc[p] = "idle"
    /\ pc' = [pc EXCEPT ![p] = "dir"]
    /\ call' = [call EXCEPT ![p] = [op |-> op, key |-> key, value |-> value]]
    /\ ret' = [ret EXCEPT ![p] = NoRet]
    /\ touched' = [touched EXCEPT ![p] = FALSE]
    /\ expect' = [q \in Procs |->
                    IF q = p
                    THEN IF /\ op = "get"
                            /\ OthersIdle(p)
                            /\ View(dirExists, files, key).kind = "Ok"
                         THEN {View(dirExists, files, key)}
                         ELSE {}
                    ELSE IF InCall(q, "get", key) /\ expect[q] # {} /\ op # "get"
                         THEN IF op = "set" /\ Cardinality(expect[q]) = 1
                              THEN expect[q] \cup {Ok(value)}
                              ELSE {}
                    ELSE expect[q]]
    /\ raced' = [q \in Procs |->
                    IF q = p
                    THEN op = "set" /\ \E r \in Procs \ {p} : InCall(r, "set", key)
                    ELSE IF op = "set" /\ InCall(q, "set", key) THEN TRUE
                    ELSE raced[q]]
    /\ UNCHANGED <<dirExists, files, fd, seqVars>>

\* let storage_path = get_storage_path(&app)?;
DirStep(p, fault) ==
    /\ pc[p] = "dir"
    /\ LET sp == GetStoragePath(dirExists, fault)
       IN  /\ dirExists' = sp.dir
           /\ IF sp.ok
              THEN /\ pc' = [pc EXCEPT ![p] = IF call[p].op = "set" THEN "open"
                                               ELSE "exists"]
                   /\ UNCHANGED ret
              ELSE Return(p, Err("DirectoryError"))
    /\ UNCHANGED <<files, call, fd, touched, expect, raced, seqVars>>

\* if !key_file.exists() { return ... }, of get and of remove.
ExistsStep(p) ==
    /\ pc[p] = "exists"
    /\ touched' = [touched EXCEPT ![p] = TRUE]
    /\ IF Exists(files, KeyFile(call[p].key))
       THEN /\ pc' = [pc EXCEPT ![p] = IF call[p].op = "get" THEN "read"
                                        ELSE "delete"]
            /\ UNCHANGED ret
       ELSE Return(p, IF call[p].op = "get" THEN Err("NotFound") ELSE Ok(<<>>))
    /\ UNCHANGED <<dirExists, files, call, fd, expect, raced, seqVars>>

\* match fs::read_to_string(&key_file) { ... }: the file may be gone by now.
ReadStep(p) ==
    /\ pc[p] = "read"
    /\ LET name == KeyFile(call[p].key)
       IN  Return(p, IF ~Exists(files, name) THEN Err("ReadError")
                     ELSE ReadAndDecode(files[name]))
    /\ UNCHANGED <<dirExists, files, call, fd, touched, expect, raced, seqVars>>

\* fs::write, first half: File::create(&key_file).
OpenStep(p) ==
    /\ pc[p] = "open"
    /\ touched' = [touched EXCEPT ![p] = TRUE]
    /\ files' = OpenTruncate(files, KeyFile(call[p].key))
    /\ fd' = [fd EXCEPT ![p] = TRUE]
    /\ pc' = [pc EXCEPT ![p] = "write"]
    /\ UNCHANGED <<dirExists, call, ret, expect, raced, seqVars>>

\* fs::write, second half: write_all(encoded) on the opened file. A file
\* removed since it was opened is written to no more.
WriteStep(p) ==
    /\ pc[p] = "write"
    /\ LET encoded == Encode(call[p].value)
       IN  files' = IF fd[p]
                    THEN WriteAll(files, KeyFile(call[p].key), encoded, Len(encoded))
                    ELSE files
    /\ Return(p, Ok(<<>>))
    /\ fd' = [fd EXCEPT ![p] = FALSE]
    /\ UNCHANGED <<dirExists, call, touched, expect, raced, seqVars>>

\* fs::remove_file(&key_file): the file may be gone by now.
DeleteStep(p) ==
    /\ pc[p] = "delete"
    /\ LET name == KeyFile(call[p].key)
       IN  IF ~Exists(files, name)
           THEN /\ Return(p, Err("DeleteError"))
                /\ UNCHANGED <<files, fd>>
           ELSE /\ files' = RemoveFile(files, name)
                /\ fd' = [q \in Procs |-> fd[q] /\ call[q].key # call[p].key]
                /\ Return(p, Ok(<<>>))
    /\ UNCHANGED <<dirExists, call, touched, expect, raced, seqVars>>

ConcNext ==
    \E p \in Procs :
      \/ \E k \in ConcKeys : Call(p, "get", k, <<>>)
      \/ \E k \in ConcKeys, v \in Values : Call(p, "set", k, v)
      \/ \E k \in ConcKeys : Call(p, "remove", k, <<>>)
      \/ \E f \in {"none", "dir"} : DirStep(p, f)
      \/ ExistsStep(p)
      \/ ReadStep(p)
      \/ OpenStep(p)
      \/ WriteStep(p)
      \/ DeleteStep(p)

ConcSpec == ConcInit /\ [][ConcNext]_vars

(* -------------------------- claims, concurrent ------------------------- *)

FileSteps == {"exists", "read", "open", "write", "delete"}

\* C8: in every call the storage directory is resolved and created before a
\* key file is examined, read, written or deleted; a call whose directory
\* step fails returns DirectoryError at once, having accessed no key file.
C8_DirectoryFirst ==
    \A p \in Procs :
      /\ (pc[p] \in FileSteps \/ touched[p]) => dirExists
      /\ ret[p].kind = "DirectoryError" => (pc[p] = "idle" /\ ~touched[p])
      /\ pc[p] = "dir" => ~touched[p]

C8_Witness ==
    \E p \in Procs :
      /\ call[p].op = "set"
      /\ ret[p] = Err("DirectoryError")
      /\ Exists(files, KeyFile(call[p].key))
      /\ \E q \in Procs \ {p} : pc[q] = "read"

\* C7: a get of k that starts when k holds v1 and overlaps one set(k, v2)
\* returns v1 or v2, never another value and never an error; and after two
\* overlapping sets of k the file of k holds the value of one of them.
C7_AtomicOverwrite ==
    /\ \A p \in Procs :
         (/\ pc[p] = "idle" /\ call[p].op = "get" /\ expect[p] # {}
          /\ ret[p].kind # "DirectoryError")
         => ret[p] \in expect[p]
    /\ \A p \in Procs : \A q \in Procs \ {p} :
         (/\ pc[p] = "idle" /\ pc[q] = "idle"
          /\ call[p].op = "set" /\ call[q].op = "set"
          /\ call[p].key = call[q].key
          /\ raced[p] /\ raced[q]
          /\ ret[p].kind = "Ok" /\ ret[q].kind = "Ok")
         => View(dirExists, files, call[p].key)
              \in {Ok(call[p].value), Ok(call[q].value)}

\* C9: when the calls are gets and removes and the file system raises no
\* read or delete fault, every remove that got past the directory step
\* returns success and every get returns a value or one of the documented
\* get errors.
C9_NoRaceErrors ==
    (\A q \in Procs : call[q].op # "set")
    => \A p \in Procs :
         pc[p] = "idle"
         => /\ call[p].op = "remove"
                 => ret[p] \in {Ok(<<>>), Err("DirectoryError")}
            /\ call[p].op = "get"
                 => ret[p].kind \in {"Ok", "NotFound", "DecodeError",
                                     "EncodingError", "DirectoryError"}

=============================================================================
